---- MODULE Spec2Model ----
(***************************************************************************)
(* zEpid: TimeFixedGFormula (causal/gformula/TimeFixed.py) and              *)
(* GEstimationSNM (causal/snm/g_estimation.py) as one state machine.        *)
(*                                                                         *)
(* One behaviour is one analyst session: a caller's table is chosen, one   *)
(* estimator is constructed over it, and its methods are called in any     *)
(* order with any arguments.  A call that raises leaves the instance as    *)
(* the code left it at the raise; the exception class is recorded in        *)
(* lastErr.  Tables live in a heap of objects so that copy-versus-alias     *)
(* is visible.                                                              *)
(***************************************************************************)
EXTENDS Integers, Sequences, FiniteSets, TLC

\* Number of rows of the caller's table.
NRows == 2

\* A missing value (np.nan) in a column.
NaN == -1

VARIABLES
    kind,              \* which estimator class this session uses
    phase,             \* "new" before a constructor returned, "constructed" after
    heap,              \* table objects: object id -> sequence of rows
    df0,               \* contents of the caller's table when the session began
    gf,                \* TimeFixedGFormula.gf (an object id)
    exposure,          \* TimeFixedGFormula.exposure
    outcome,           \* .outcome of either class
    outcome_type,      \* TimeFixedGFormula.outcome_type
    _weights,          \* ._weights of either class
    model_fit,         \* TimeFixedGFormula.model_fit
    outcome_model,     \* TimeFixedGFormula.outcome_model: the method, or the fitted results
    marginal_outcome,  \* TimeFixedGFormula.marginal_outcome
    predicted_df,      \* TimeFixedGFormula.predicted_df (an object id)
    self_df,           \* GEstimationSNM.df (an object id)
    treatment,         \* GEstimationSNM.treatment
    psi,               \* GEstimationSNM.psi
    psi_labels,        \* GEstimationSNM.psi_labels
    _treatment_model,  \* GEstimationSNM._treatment_model
    _snm_,             \* GEstimationSNM._snm_
    _print_results,    \* GEstimationSNM._print_results
    lastOp,            \* the call that just returned or raised
    lastArg,           \* its argument
    lastErr,           \* the exception class it raised, or "none"
    warned             \* whether it issued warnings.warn

gfVars == <<gf, exposure, outcome_type, model_fit, outcome_model,
            marginal_outcome, predicted_df>>
snmVars == <<self_df, treatment, psi, psi_labels, _treatment_model, _snm_,
             _print_results>>
vars == <<kind, phase, heap, df0, outcome, _weights, gfVars, snmVars,
          lastOp, lastArg, lastErr, warned>>

(***************************************************************************)
(* Python values                                                           *)
(***************************************************************************)
None == [t |-> "NoneType"]
\* An attribute that has not been assigned yet.
Unset == [t |-> "unset"]
NoArg == [t |-> "noarg"]

\* A str.  Custom treatment strings have the form g['col']==val; they are
\* kept with their column and value so that eval can be modelled.
Str(s) == [t |-> "str", s |-> s, col |-> "", val |-> 0]
Pred(c, v) == [t |-> "str", s |-> "g[col]==val", col |-> c, val |-> v]
List(items) == [t |-> "list", items |-> items]
PyInt(n) == [t |-> "int", n |-> n]

IsStr(x, s) == x.t = "str" /\ x.s = s
IsNone(x) == x.t = "NoneType"

\* len(x) of a str or a list.  len("g['L']==1") is 8 + len("L").
PyLen(x) ==
    IF x.t = "list" THEN Len(x.items)
    ELSE IF x.s = "g[col]==val" THEN 8 + Len(x.col)
    ELSE Len(x.s)

(***************************************************************************)
(* Tables                                                                  *)
(***************************************************************************)
Columns == {"A1", "A2", "L", "Y", "W"}

Row(a1, a2, l, y, w) == [A1 |-> a1, A2 |-> a2, L |-> l, Y |-> y, W |-> w]

\* Input rows of a g-formula session: two indicator exposures and a
\* covariate, each 0 or 1; the outcome and the weight (1 or 2) are read off
\* the covariate and the first exposure.
GFRows == {Row(a1, a2, l, l, 1 + a1) : a1 \in {0, 1}, a2 \in {0, 1}, l \in {0, 1}}

\* Input rows of a g-estimation session: complete rows with a binary
\* exposure and a weight of 1 or 2 (read off the outcome), and rows whose
\* exposure is not binary or whose covariate is missing, or both.
SNMRows ==
    {Row(a1, 0, l, y, 1 + y) : a1 \in {0, 1}, l \in {0, 1}, y \in {0, 1}}
    \cup {Row(a1, 0, l, 0, 1) : a1 \in {2}, l \in {0, 1, NaN}}
    \cup {Row(a1, 0, l, 0, 1) : a1 \in {0, 1}, l \in {NaN}}

Tables(rows) == [1..NRows -> rows]

RECURSIVE SumSeq(_)
SumSeq(s) == IF s = <<>> THEN 0 ELSE Head(s) + SumSeq(Tail(s))

\* g[col] = vals
SetColumn(g, col, vals) == [i \in 1..Len(g) |-> [g[i] EXCEPT ![col] = vals[i]]]

Column(g, col) == [i \in 1..Len(g) |-> g[i][col]]

\* A copy that hands back the source object itself.
DfCopyAlias(src, site) == src

\* DataFrame.copy(): a new object at the allocation site, never the source.
DfCopy(src, site) == site

Alloc(h, src, ref) == IF ref = src THEN h ELSE [h EXCEPT ![ref] = h[src]]

(***************************************************************************)
(* TimeFixedGFormula                                                       *)
(***************************************************************************)
GFOp(name) == "TimeFixedGFormula." \o name

\* The exposure argument: one column name, or a list of indicator columns.
Exposures == {Str("A1"), List(<<"A1", "A2">>)}

OutcomeTypes == {"binary", "continuous", "ordinal"}

\* Model formulas, as the sequence of their terms; "Z" is no column.
OutcomeFormulas == {<<"A1", "A2", "L">>, <<"A1", "Z">>}

\* Custom treatment strings.
Predicates == {Pred("L", 1), Pred("A1", 0)}

\* The treatment arguments of fit.
Treatments ==
    {Str("all"), Str("none"), PyInt(1)}
    \cup Predicates
    \cup {List(<<p>>) : p \in {Pred("L", 1)}}
    \cup {List(<<p, q>>) : p \in Predicates, q \in Predicates}
    \cup {List(<<p, p, p>>) : p \in {Pred("L", 1)}}

\* A call raised: nothing but the record of the call changes.
GFRaise(exc) ==
    /\ lastErr' = exc
    /\ warned' = FALSE
    /\ UNCHANGED <<kind, phase, heap, df0, outcome, _weights, gfVars, snmVars>>

\* __init__
TimeFixedGFormula_init(exp, otype, w) ==
    /\ kind = "gformula"
    /\ phase = "new"
    /\ lastOp' = GFOp("__init__")
    /\ lastArg' = exp
    /\ IF otype \in {"binary", "continuous"}
       THEN /\ gf' = DfCopy("caller", "gf")
            /\ heap' = Alloc(heap, "caller", gf')
            /\ exposure' = exp
            /\ outcome' = "Y"
            /\ outcome_type' = otype
            /\ _weights' = w
            /\ model_fit' = FALSE
            /\ phase' = "constructed"
            /\ lastErr' = "none"
            /\ warned' = FALSE
            /\ UNCHANGED <<kind, df0, outcome_model, marginal_outcome, predicted_df,
                           snmVars>>
       ELSE GFRaise("ValueError")

\* patsy resolves every term of the formula against the table.
FormulaOk(model) == \A k \in 1..Len(model) : model[k] \in Columns

\* outcome_model
TimeFixedGFormula_outcome_model(model) ==
    /\ kind = "gformula"
    /\ phase = "constructed"
    /\ lastOp' = GFOp("outcome_model")
    /\ lastArg' = List(model)
    /\ IF outcome_model = "results"
       THEN \* the attribute now holds the fitted results, which are not callable
            GFRaise("TypeError")
       ELSE IF ~FormulaOk(model)
       THEN GFRaise("PatsyError")
       ELSE /\ outcome_model' = "results"
            /\ model_fit' = TRUE
            /\ lastErr' = "none"
            /\ warned' = FALSE
            /\ UNCHANGED <<kind, phase, heap, df0, outcome, _weights, gf, exposure,
                           outcome_type, marginal_outcome, predicted_df, snmVars>>

\* eval(treatment) of a custom string, against the working table g as it is
\* at the moment of the call.
Eval(p, g) == [i \in 1..Len(g) |-> g[i][p.col] = p.val]

\* np.where(cond, 1, 0)
NpWhere(cond) == [i \in 1..Len(cond) |-> IF cond[i] THEN 1 ELSE 0]

\* The guard on model_fit left out.
NotFittedUnchecked(mf) == FALSE

\* fit, the guard on model_fit.
NotFitted(mf) == mf = FALSE

\* The list-length check rejecting only plans that are too short.
LengthMismatchShortOnly(exp, trt) == Len(exp.items) > PyLen(trt)

\* fit, multivariate exposure: the list-length check.
LengthMismatch(exp, trt) == Len(exp.items) # PyLen(trt)

\* fit: the exception class of the first check that raises, or "none".
TreatmentError(mf, exp, trt) ==
    IF NotFitted(mf) THEN "ValueError"
    ELSE IF trt.t # "str" /\ trt.t # "list" THEN "ValueError"
    ELSE IF exp.t = "list"
    THEN IF IsStr(trt, "all") \/ IsStr(trt, "none") THEN "ValueError"
         ELSE IF LengthMismatch(exp, trt) THEN "ValueError"
         ELSE "none"
    ELSE IF trt.t = "list" THEN "ValueError"
    ELSE "none"

\* 'none' assigning 1 like 'all'.
BinaryTreatmentNoneAsAll(trt, g) ==
    IF IsStr(trt, "all") \/ IsStr(trt, "none") THEN [i \in 1..Len(g) |-> 1]
    ELSE NpWhere(Eval(trt, g))

\* fit, binary exposure: the values written to the exposure column.
BinaryTreatment(trt, g) ==
    IF IsStr(trt, "all") THEN [i \in 1..Len(g) |-> 1]
    ELSE IF IsStr(trt, "none") THEN [i \in 1..Len(g) |-> 0]
    ELSE NpWhere(Eval(trt, g))

\* fit, multivariate exposure: the loop over the indicator columns, from
\* column i on.  Each pass evaluates its string against the g the previous
\* passes wrote to.
RECURSIVE MultivariateTreatment(_, _, _, _)
MultivariateTreatment(g, cols, plan, i) ==
    IF i > Len(cols) THEN g
    ELSE MultivariateTreatment(SetColumn(g, cols[i], NpWhere(Eval(plan[i], g))),
                               cols, plan, i + 1)

\* g[cols].sum(axis=1)
RowSum(g, cols) == [r \in 1..Len(g) |-> SumSeq([k \in 1..Len(cols) |-> g[r][cols[k]]])]

\* fit, multivariate exposure: whether the overlap warning is issued.
OverlapWarning(g, cols) ==
    SumSeq(NpWhere([r \in 1..Len(g) |-> RowSum(g, cols)[r] > 1])) > 1

\* outcome_model.predict(g): the fitted model is a fixed function of a row's
\* regressors (here 10 + 20*A1 + 40*A2 + 5*L, in percent).
Predict(g) == [i \in 1..Len(g) |-> 10 + 20 * g[i].A1 + 40 * g[i].A2 + 5 * g[i].L]

\* np.mean / np.average, as the fraction num/den.
Float(num, den) == [t |-> "float", num |-> num, den |-> den]

MarginalOutcome(pred, w, wcol) ==
    IF IsNone(w) THEN Float(SumSeq(pred), Len(pred))
    ELSE Float(SumSeq([i \in 1..Len(pred) |-> wcol[i] * pred[i]]), SumSeq(wcol))

\* What a write through reference ref leaves in the heap: a local working
\* copy that never got stored is dropped with the frame.
Discard(h, ref, val) == IF ref = "g" THEN h ELSE [h EXCEPT ![ref] = val]

\* fit
TimeFixedGFormula_fit(trt) ==
    /\ kind = "gformula"
    /\ phase = "constructed"
    /\ lastOp' = GFOp("fit")
    /\ lastArg' = trt
    /\ LET err == TreatmentError(model_fit, exposure, trt)
           ref == DfCopy(gf, "g")
           g0 == heap[gf]
           multi == exposure.t = "list"
           evalOk == ~multi \/ trt.t = "list"
           g1 == IF multi
                 THEN MultivariateTreatment(g0, exposure.items, trt.items, 1)
                 ELSE SetColumn(g0, exposure.s, BinaryTreatment(trt, g0))
           g2 == SetColumn(g1, outcome, [i \in 1..Len(g1) |-> NaN])
           g3 == SetColumn(g2, outcome, Predict(g2))
       IN  IF err # "none" THEN GFRaise(err)
           ELSE IF ~evalOk
           THEN \* eval of one character of a str plan
                GFRaise("SyntaxError")
           ELSE IF outcome_model # "results"
           THEN \* the bound method has no predict
                /\ heap' = Discard(heap, ref, g2)
                /\ lastErr' = "AttributeError"
                /\ warned' = (multi /\ OverlapWarning(g1, exposure.items))
                /\ UNCHANGED <<kind, phase, df0, outcome, _weights, gfVars, snmVars>>
           ELSE /\ heap' = [heap EXCEPT ![ref] = g3]
                /\ marginal_outcome' =
                       MarginalOutcome(Column(g3, outcome), _weights,
                                       Column(heap'[gf], IF IsNone(_weights) THEN "W"
                                                         ELSE _weights.s))
                /\ predicted_df' = ref
                /\ lastErr' = "none"
                /\ warned' = (multi /\ OverlapWarning(g1, exposure.items))
                /\ UNCHANGED <<kind, phase, df0, outcome, _weights, gf, exposure,
                               outcome_type, model_fit, outcome_model, snmVars>>

(***************************************************************************)
(* GEstimationSNM                                                          *)
(***************************************************************************)
SNMOp(name) == "GEstimationSNM." \o name

\* A model formula string: its text and its terms, each term the sequence
\* of the columns it multiplies ("A1:L" is <<"A1", "L">>).
Formula(s, terms) == [t |-> "str", s |-> s, terms |-> terms]

TreatmentFormulas == {Formula("L", << <<"L">> >>)}

SNMFormulas == {Formula("A1", << <<"A1">> >>),
                Formula("A1 + A1:L", << <<"A1">>, <<"A1", "L">> >>),
                Formula("A1 + A1:Z", << <<"A1">>, <<"A1", "Z">> >>)}

Solvers == {"closed", "search", "newton"}

\* df.dropna().reset_index(): the rows without a missing value, in order,
\* each with its former position in the column "index".
HasNaN(r) == \E c \in DOMAIN r : r[c] = NaN

RECURSIVE DropNaResetIndex(_, _)
DropNaResetIndex(tbl, i) ==
    IF i > Len(tbl) THEN <<>>
    ELSE IF HasNaN(tbl[i]) THEN DropNaResetIndex(tbl, i + 1)
    ELSE <<[c \in DOMAIN tbl[i] \cup {"index"} |->
              IF c = "index" THEN i - 1 ELSE tbl[i][c]]>>
         \o DropNaResetIndex(tbl, i + 1)

\* .any() in place of .all().
BinaryExposureAny(tbl, col) == \E i \in 1..Len(tbl) : tbl[i][col] \in {0, 1}

\* __init__: value_counts().index.isin([0, 1]).all() over the kept rows.
BinaryExposure(tbl, col) == \A i \in 1..Len(tbl) : tbl[i][col] \in {0, 1}

\* A call raised before it assigned anything.
SNMRaise(exc) ==
    /\ lastErr' = exc
    /\ UNCHANGED <<kind, phase, heap, df0, outcome, _weights, gfVars, snmVars>>

\* __init__
GEstimationSNM_init(exp, w) ==
    /\ kind = "snm"
    /\ phase = "new"
    /\ lastOp' = SNMOp("__init__")
    /\ lastArg' = Str(exp)
    /\ warned' = (Len(DropNaResetIndex(heap["caller"], 1)) # Len(heap["caller"]))
    /\ LET ref == DfCopy("caller", "snm")
           kept == DropNaResetIndex(Alloc(heap, "caller", ref)[ref], 1)
       IN  IF ~BinaryExposure(kept, exp) THEN SNMRaise("ValueError")
           ELSE /\ heap' = [heap EXCEPT !["snm"] = kept]
                /\ self_df' = "snm"
                /\ treatment' = exp
                /\ outcome' = "Y"
                /\ psi' = None
                /\ psi_labels' = None
                /\ _weights' = w
                /\ _treatment_model' = None
                /\ _snm_' = None
                /\ _print_results' = TRUE
                /\ phase' = "constructed"
                /\ lastErr' = "none"
                /\ UNCHANGED <<kind, df0, gfVars>>

\* treatment_model
GEstimationSNM_treatment_model(model, print_results) ==
    /\ kind = "snm"
    /\ phase = "constructed"
    /\ lastOp' = SNMOp("treatment_model")
    /\ lastArg' = model
    /\ _treatment_model' = model
    /\ _print_results' = print_results
    /\ lastErr' = "none"
    /\ warned' = FALSE
    /\ UNCHANGED <<kind, phase, heap, df0, outcome, _weights, gfVars, self_df,
                   treatment, psi, psi_labels, _snm_>>

\* structural_nested_model
GEstimationSNM_structural_nested_model(model) ==
    /\ kind = "snm"
    /\ phase = "constructed"
    /\ lastOp' = SNMOp("structural_nested_model")
    /\ lastArg' = model
    /\ _snm_' = model
    /\ lastErr' = "none"
    /\ warned' = FALSE
    /\ UNCHANGED <<kind, phase, heap, df0, outcome, _weights, gfVars, self_df,
                   treatment, psi, psi_labels, _treatment_model, _print_results>>

\* The columns of self.df.
DfColumns == Columns \cup {"index"}

RECURSIVE TermValue(_, _)
TermValue(r, term) ==
    IF term = <<>> THEN 1 ELSE r[Head(term)] * TermValue(r, Tail(term))

RECURSIVE TermLabel(_)
TermLabel(term) ==
    IF Len(term) = 1 THEN term[1] ELSE term[1] \o ":" \o TermLabel(Tail(term))

\* patsy.dmatrix(formula + ' - 1', tbl): whether every column is found, the
\* column labels, and the matrix as a sequence of rows.
DMatrixOk(f, cols) ==
    \A k \in 1..Len(f.terms) : \A j \in 1..Len(f.terms[k]) : f.terms[k][j] \in cols

DMatrixColumns(f) == [k \in 1..Len(f.terms) |-> TermLabel(f.terms[k])]

DMatrix(f, tbl) ==
    [i \in 1..Len(tbl) |-> [k \in 1..Len(f.terms) |-> TermValue(tbl[i], f.terms[k])]]

\* df.copy().drop(columns=[treat]).rename(columns={out: treat})
OutcomeAsTreatment(tbl, treat, out) ==
    [i \in 1..Len(tbl) |->
        [c \in DOMAIN tbl[i] \ {out} |-> IF c = treat THEN tbl[i][out] ELSE tbl[i][c]]]

RECURSIVE Fact(_)
Fact(n) == IF n <= 1 THEN 1 ELSE n * Fact(n - 1)

\* Probabilities are kept as integers over the common denominator Scale.
Scale(tbl) == Fact(Len(tbl))

\* propensity_score(df, treat ~ model).predict(df): the fitted probability of
\* a row is the share of treated rows among the rows with the same regressor
\* values (the maximum-likelihood fit of a saturated logistic model).
PropensityPredict(tbl, treat, model) ==
    [i \in 1..Len(tbl) |->
        LET same == [j \in 1..Len(tbl) |->
                        \A k \in 1..Len(model.terms) :
                            TermValue(tbl[j], model.terms[k])
                                = TermValue(tbl[i], model.terms[k])]
        IN  (SumSeq([j \in 1..Len(tbl) |-> IF same[j] THEN tbl[j][treat] ELSE 0])
                * Scale(tbl))
            \div SumSeq(NpWhere(same))]

\* np.linalg.solve(lhm, rha) for one or two unknowns, by Cramer's rule.
Solve(lhm, rha) ==
    IF Len(rha) = 1
    THEN IF lhm[1][1] = 0 THEN [err |-> "LinAlgError", x |-> <<>>]
         ELSE [err |-> "none", x |-> <<Float(rha[1], lhm[1][1])>>]
    ELSE LET det == lhm[1][1] * lhm[2][2] - lhm[1][2] * lhm[2][1]
         IN  IF det = 0 THEN [err |-> "LinAlgError", x |-> <<>>]
             ELSE [err |-> "none",
                   x |-> <<Float(rha[1] * lhm[2][2] - lhm[1][2] * rha[2], det),
                           Float(lhm[1][1] * rha[2] - lhm[2][1] * rha[1], det)>>]

\* _closed_form_solver_: diff.  The parameter weights is what fit passes,
\* self._weights: None or the name of the weights column.  With a name,
\* diff * weights multiplies a float column by a str, which raises.
Residual(tbl, treat, pred_treat, weights) ==
    IF ~IsNone(weights)
    THEN [err |-> "TypeError", x |-> <<>>]
    ELSE [err |-> "none",
          x |-> [i \in 1..Len(tbl) |-> tbl[i][treat] * Scale(tbl) - pred_treat[i]]]

\* _closed_form_solver_: lhm, the D-by-D matrix.
Lhm(snm_matrix, diff) ==
    [a \in 1..Len(snm_matrix[1]) |-> [b \in 1..Len(snm_matrix[1]) |->
        SumSeq([i \in 1..Len(diff) |-> snm_matrix[i][a] * diff[i] * snm_matrix[i][b]])]]

\* _closed_form_solver_: rha, the array of outcomes.
Rha(y_matrix, diff) ==
    [a \in 1..Len(y_matrix[1]) |->
        SumSeq([i \in 1..Len(diff) |-> y_matrix[i][a] * diff[i]])]

\* _closed_form_solver_
ClosedFormSolver(treat, model, tbl, snm_matrix, y_matrix, weights) ==
    IF Len(tbl) = 0
    THEN \* no observation is left to fit the treatment model to
         [err |-> "LibraryError", x |-> <<>>]
    ELSE LET pred_treat == PropensityPredict(tbl, treat, model)
             diff == Residual(tbl, treat, pred_treat, weights)
         IN  IF diff.err # "none" THEN diff
             ELSE Solve(Lhm(snm_matrix, diff.x), Rha(y_matrix, diff.x))

\* _grid_search_
GridSearch == "ValueError"

NdArray(items) == [t |-> "ndarray", items |-> items]

\* fit
GEstimationSNM_fit(solver) ==
    /\ kind = "snm"
    /\ phase = "constructed"
    /\ lastOp' = SNMOp("fit")
    /\ lastArg' = Str(solver)
    /\ warned' = FALSE
    /\ IF solver = "closed"
       THEN IF IsNone(_snm_)
            THEN \* None + ' - 1'
                 SNMRaise("TypeError")
            ELSE IF ~DMatrixOk(_snm_, DfColumns)
            THEN SNMRaise("PatsyError")
            ELSE /\ psi_labels' = List(DMatrixColumns(_snm_))
                 /\ LET tbl == heap[self_df]
                        snm == DMatrix(_snm_, tbl)
                        yf == OutcomeAsTreatment(tbl, treatment, outcome)
                        y_vals == DMatrix(_snm_, yf)
                        r == IF IsNone(_treatment_model)
                             THEN \* self.treatment + ' ~ ' + None
                                  [err |-> "TypeError", x |-> <<>>]
                             ELSE ClosedFormSolver(treatment, _treatment_model, tbl,
                                                   snm, y_vals, _weights)
                    IN  /\ lastErr' = r.err
                        /\ psi' = IF r.err = "none" THEN NdArray(r.x) ELSE psi
                 /\ UNCHANGED <<kind, phase, heap, df0, outcome, _weights, gfVars,
                                self_df, treatment, _treatment_model, _snm_,
                                _print_results>>
       ELSE IF solver = "search"
       THEN SNMRaise(GridSearch)
       ELSE SNMRaise("ValueError")

\* summary
GEstimationSNM_summary ==
    /\ kind = "snm"
    /\ phase = "constructed"
    /\ lastOp' = SNMOp("summary")
    /\ lastArg' = NoArg
    /\ warned' = FALSE
    /\ IF IsNone(psi) \/ IsNone(psi_labels)
       THEN \* zip(None, ...)
            SNMRaise("TypeError")
       ELSE SNMRaise("none")

(***************************************************************************)
(* The session                                                             *)
(***************************************************************************)
WeightArgs == {None, Str("W")}

Init ==
    /\ kind \in {"gformula", "snm"}
    /\ phase = "new"
    /\ df0 \in (IF kind = "gformula" THEN Tables(GFRows) ELSE Tables(SNMRows))
    /\ heap = [o \in {"caller", "gf", "g", "snm"} |-> IF o = "caller" THEN df0 ELSE <<>>]
    /\ gf = "unset"
    /\ exposure = Unset
    /\ outcome = "unset"
    /\ outcome_type = "unset"
    /\ _weights = Unset
    /\ model_fit = FALSE
    /\ outcome_model = "method"
    /\ marginal_outcome = Unset
    /\ predicted_df = "unset"
    /\ self_df = "unset"
    /\ treatment = "unset"
    /\ psi = Unset
    /\ psi_labels = Unset
    /\ _treatment_model = Unset
    /\ _snm_ = Unset
    /\ _print_results = TRUE
    /\ lastOp = "none"
    /\ lastArg = NoArg
    /\ lastErr = "none"
    /\ warned = FALSE

Next ==
    \/ \E e \in Exposures, ot \in OutcomeTypes, w \in WeightArgs :
          TimeFixedGFormula_init(e, ot, w)
    \/ \E m \in OutcomeFormulas : TimeFixedGFormula_outcome_model(m)
    \/ \E trt \in Treatments : TimeFixedGFormula_fit(trt)
    \/ \E w \in WeightArgs : GEstimationSNM_init("A1", w)
    \/ \E m \in TreatmentFormulas, pr \in {FALSE} : GEstimationSNM_treatment_model(m, pr)
    \/ \E m \in SNMFormulas : GEstimationSNM_structural_nested_model(m)
    \/ \E sv \in Solvers : GEstimationSNM_fit(sv)
    \/ GEstimationSNM_summary

Spec == Init /\ [][Next]_vars

(***************************************************************************)
(* Properties                                                              *)
(***************************************************************************)
\* The exception class the code raises for a configuration failure.
ConfigurationError == "ValueError"

GFFitted == lastOp = GFOp("fit") /\ lastErr = "none"

\* C1: with a scalar exposure, after a successful fit(plan) the exposure
\* column of predicted_df is 1 in every row for 'all', 0 in every row for
\* 'none', and otherwise the plan's predicate of the row, as 0 or 1.
C1_ScalarExposureColumn ==
    (GFFitted /\ exposure.t = "str") =>
        \A i \in 1..Len(heap[predicted_df]) :
            LET v == heap[predicted_df][i][exposure.s]
                r == df0[i]
            IN  /\ IsStr(lastArg, "all") => v = 1
                /\ IsStr(lastArg, "none") => v = 0
                /\ lastArg.s = "g[col]==val" =>
                       v = (IF r[lastArg.col] = lastArg.val THEN 1 ELSE 0)

\* C1 witness: a custom plan was fitted and gave some row 1 and some row 0.
C1_Witness ==
    /\ GFFitted
    /\ exposure.t = "str"
    /\ lastArg.s = "g[col]==val"
    /\ \E i, j \in 1..Len(heap[predicted_df]) :
          /\ heap[predicted_df][i][exposure.s] = 1
          /\ heap[predicted_df][j][exposure.s] = 0

\* C2: a fit call made while outcome_model has not completed raises the
\* configuration error, whatever the treatment argument and the exposure,
\* and stores no marginal outcome and no working table.
C2_FitBeforeOutcomeModel ==
    [][(lastOp' = GFOp("fit") /\ outcome_model = "method") =>
           /\ lastErr' = ConfigurationError
           /\ UNCHANGED <<marginal_outcome, predicted_df, heap>>]_vars

\* C2 witness: fit with a valid plan was refused before outcome_model.
C2_Witness ==
    /\ lastOp = GFOp("fit")
    /\ outcome_model = "method"
    /\ lastErr = ConfigurationError
    /\ \/ exposure.t = "str" /\ IsStr(lastArg, "all")
       \/ exposure.t = "list" /\ lastArg.t = "list" /\ Len(lastArg.items) = 2

\* C3: the caller's table is never changed by any call on either
\* estimator, and the table stored in gf stays as it was copied; what a
\* successful fit overwrites is an object of its own.
C3_TablesUntouched ==
    /\ heap["caller"] = df0
    /\ (kind = "gformula" /\ phase = "constructed") => heap[gf] = df0
    /\ predicted_df # "unset" => (predicted_df # gf /\ predicted_df # "caller")

\* C3 witness: a fit stored a working table that differs from gf.
C3_Witness ==
    /\ GFFitted
    /\ heap[predicted_df] # heap[gf]
    /\ heap[gf] = heap["caller"]

\* fit was called on a fitted multivariate instance with 'all', with 'none',
\* or with a list whose length is not that of the exposure list.
C4_BadPlan(exp, trt) ==
    /\ exp.t = "list"
    /\ \/ IsStr(trt, "all")
       \/ IsStr(trt, "none")
       \/ trt.t = "list" /\ Len(trt.items) # Len(exp.items)

\* C4: with a multivariate exposure and a fitted outcome model, fit raises
\* the configuration error for 'all', for 'none' and for a list of another
\* length than the exposure list, overwrites no column and stores nothing.
C4_MultivariatePlanRejected ==
    [][(lastOp' = GFOp("fit") /\ model_fit /\ C4_BadPlan(exposure, lastArg')) =>
           /\ lastErr' = ConfigurationError
           /\ UNCHANGED <<heap, marginal_outcome, predicted_df>>]_vars

\* C4 witness: a too-long list was refused after an earlier fit had stored
\* its result.
C4_Witness ==
    /\ lastOp = GFOp("fit")
    /\ model_fit
    /\ exposure.t = "list"
    /\ lastArg.t = "list"
    /\ Len(lastArg.items) > Len(exposure.items)
    /\ lastErr = ConfigurationError
    /\ predicted_df # "unset"

SNMConstructing == lastOp = SNMOp("__init__")

\* A row without a missing value.
Complete(r) == \A c \in DOMAIN r : r[c] # NaN

\* C5 as stated: GEstimationSNM(...) over a table whose exposure column
\* holds a value other than 0 and 1 raises the configuration error, also
\* when that value sits in a row with a missing value in another column.
C5_AnyNonBinaryRejected ==
    (SNMConstructing /\ \E i \in 1..Len(df0) : df0[i].A1 \notin {0, 1}) =>
        lastErr = ConfigurationError

\* C5 as amended: the constructor raises the configuration error exactly
\* when a row without any missing value holds an exposure other than 0 and
\* 1; a value in a row dropped for a missing value does not count.
C5_NonBinaryInKeptRowRejected ==
    SNMConstructing =>
        ((lastErr = ConfigurationError)
            <=> \E i \in 1..Len(df0) : Complete(df0[i]) /\ df0[i].A1 \notin {0, 1})

\* C5 witness: the constructor refused a table with a non-binary exposure
\* in a complete row, next to a row with a missing value.
C5_Witness ==
    /\ SNMConstructing
    /\ lastErr = ConfigurationError
    /\ \E i \in 1..Len(df0) : Complete(df0[i]) /\ df0[i].A1 \notin {0, 1}
    /\ \E i \in 1..Len(df0) : ~Complete(df0[i])

\* C6 as stated: fit(solver='closed') without a treatment model raises the
\* configuration error, with or without a structural nested model, and
\* leaves psi and psi_labels as they were.
C6_ClosedWithoutTreatmentModel ==
    [][(lastOp' = SNMOp("fit") /\ IsStr(lastArg', "closed")
            /\ IsNone(_treatment_model)) =>
           /\ lastErr' = ConfigurationError
           /\ UNCHANGED <<psi, psi_labels>>]_vars

\* C7 as stated: fit with solver='search' raises a not-implemented error
\* that is not the configuration error, any solver other than 'closed' and
\* 'search' raises the configuration error, and both leave psi and
\* psi_labels as they were.
C7_OtherSolvers ==
    [][(lastOp' = SNMOp("fit") /\ ~IsStr(lastArg', "closed")) =>
           /\ UNCHANGED <<psi, psi_labels>>
           /\ IF IsStr(lastArg', "search")
              THEN lastErr' \notin {"none", ConfigurationError}
              ELSE lastErr' = ConfigurationError]_vars

\* psi and psi_labels agree: both unset, or as many entries as labels.
PsiMatchesLabels ==
    \/ IsNone(psi) /\ IsNone(psi_labels)
    \/ /\ psi.t = "ndarray"
       /\ psi_labels.t = "list"
       /\ Len(psi.items) = Len(psi_labels.items)

\* C8 as stated: in every state of a constructed GEstimationSNM, psi and
\* psi_labels are both unset or psi has as many entries as psi_labels, and
\* treatment_model, structural_nested_model and summary change neither.
C8_PsiAndLabels ==
    /\ []((kind = "snm" /\ phase = "constructed") => PsiMatchesLabels)
    /\ [][lastOp' \in {SNMOp("treatment_model"), SNMOp("structural_nested_model"),
                       SNMOp("summary")}
             => UNCHANGED <<psi, psi_labels>>]_vars

\* Some row of the stored working table has more than one indicator at 1.
SomeRowOverlaps ==
    \E i \in 1..Len(heap[predicted_df]) :
        Cardinality({k \in 1..Len(exposure.items) :
                        heap[predicted_df][i][exposure.items[k]] = 1}) > 1

\* C9 as stated: a multivariate fit completes and stores its result, and
\* it warns exactly when some row of the working table ends with more
\* than one indicator at 1.
C9_OverlapWarning ==
    (GFFitted /\ exposure.t = "list") =>
        /\ predicted_df # "unset"
        /\ warned <=> SomeRowOverlaps

\* C10 as stated: after a multivariate fit, indicator column k holds
\* predicate k of the row as it was before the fit wrote any indicator.
C10_IndependentPredicates ==
    (GFFitted /\ exposure.t = "list") =>
        \A k \in 1..Len(exposure.items) : \A i \in 1..Len(df0) :
            heap[predicted_df][i][exposure.items[k]]
                = (IF df0[i][lastArg.items[k].col] = lastArg.items[k].val THEN 1 ELSE 0)

\* The last call was fit(solver='closed') and it got as far as the solve:
\* both models are specified, the design matrix can be built and a row is
\* left to fit the treatment model to.
ClosedFormReached ==
    /\ lastOp = SNMOp("fit")
    /\ IsStr(lastArg, "closed")
    /\ _snm_.t = "str"
    /\ DMatrixOk(_snm_, DfColumns)
    /\ _treatment_model.t = "str"
    /\ Len(heap[self_df]) > 0

\* The residual as C11 describes it: observed exposure minus predicted
\* probability, times the row's value in the weights column if one is
\* configured.
C11_ScaledResidual ==
    LET tbl == heap[self_df]
        pred == PropensityPredict(tbl, treatment, _treatment_model)
    IN  [i \in 1..Len(tbl) |->
            (tbl[i][treatment] * Scale(tbl) - pred[i])
                * (IF IsNone(_weights) THEN 1 ELSE tbl[i][_weights.s])]

\* C11 as stated: the closed-form solve builds lhm and rha from the
\* residual multiplied by each row's value in the weights column when a
\* weights column is configured, and from the unscaled residual otherwise;
\* fit ends as the solve of that system ends and stores its solution.
C11_ResidualScaledByWeights ==
    ClosedFormReached =>
        LET tbl == heap[self_df]
            snm == DMatrix(_snm_, tbl)
            y_vals == DMatrix(_snm_, OutcomeAsTreatment(tbl, treatment, outcome))
            r == Solve(Lhm(snm, C11_ScaledResidual), Rha(y_vals, C11_ScaledResidual))
        IN  /\ lastErr = r.err
            /\ r.err = "none" => psi = NdArray(r.x)

====
